---- MODULE Spec2Model ----
EXTENDS Integers, Sequences, FiniteSets, TLC

\* Verification model of src/server.py: the DQClient (lazy sign-in, cached
\* bearer headers, single retry on 401), get_client and call_api.

\* ---------------------------------------------------------------------------
\* Python values (None, str, dict, list, an unparsable body)
\* ---------------------------------------------------------------------------

PyNone == [py |-> "None"]

PyStr(s) == [py |-> "str", v |-> s]

\* a dict: keys is the key order of the JSON document, v maps keys to values
PyDict(keys, f) == [py |-> "dict", keys |-> keys, v |-> f]

PyList(s) == [py |-> "list", v |-> s]

PyInt(n) == [py |-> "int", v |-> n]

\* a response body that response.json() cannot decode
NotJson == [py |-> "notjson"]

\* str(n) for an integer
Digits == <<"0", "1", "2", "3", "4", "5", "6", "7", "8", "9">>

RECURSIVE NatStr(_)
NatStr(n) == IF n < 10 THEN Digits[n + 1] ELSE NatStr(n \div 10) \o Digits[(n % 10) + 1]

IntStr(n) == IF n < 0 THEN "-" \o NatStr(-n) ELSE NatStr(n)

HasChar(s, c) == \E i \in 1..Len(s) : SubSeq(s, i, i) = c

\* the quote repr picks: double quotes only if s has a ' and no "
ReprQuote(s) == IF HasChar(s, "'") /\ ~HasChar(s, "\"") THEN "\"" ELSE "'"

\* one character of s inside the quotes q
EscapeChar(c, q) ==
    CASE c = "\\" -> "\\\\"
      [] c = q    -> "\\" \o q
      [] c = "\n" -> "\\n"
      [] c = "\r" -> "\\r"
      [] c = "\t" -> "\\t"
      [] c = "\f" -> "\\x0c"
      [] OTHER    -> c

RECURSIVE EscapeFrom(_, _, _)
EscapeFrom(s, q, i) ==
    IF i > Len(s) THEN ""
    ELSE EscapeChar(SubSeq(s, i, i), q) \o EscapeFrom(s, q, i + 1)

\* repr(s) for a str
StrRepr(s) == ReprQuote(s) \o EscapeFrom(s, ReprQuote(s), 1) \o ReprQuote(s)

\* repr(x) for the JSON values response.json() produces; a dict prints its
\* keys in document order
RECURSIVE Repr(_), ReprSeq(_, _)
Repr(x) ==
    CASE x.py = "None" -> "None"
      [] x.py = "str"  -> StrRepr(x.v)
      [] x.py = "int"  -> IntStr(x.v)
      [] x.py = "list" -> "[" \o ReprSeq(x.v, 1) \o "]"
      [] x.py = "dict" ->
           "{" \o ReprSeq([i \in 1..Len(x.keys) |->
                             [py |-> "kv", k |-> x.keys[i], v |-> x.v[x.keys[i]]]], 1) \o "}"
      [] x.py = "kv"   -> StrRepr(x.k) \o ": " \o Repr(x.v)

ReprSeq(xs, i) ==
    IF i > Len(xs) THEN ""
    ELSE Repr(xs[i]) \o (IF i < Len(xs) THEN ", " \o ReprSeq(xs, i + 1) ELSE "")

\* f"{x}", i.e. str(x): a str is itself, anything else its repr
FormatValue(x) == IF x.py = "str" THEN x.v ELSE Repr(x)

\* ---------------------------------------------------------------------------
\* Program constants
\* ---------------------------------------------------------------------------

Unauthorized == 401

ExcerptMax == 500

\* requests.Response.ok: raise_for_status raises only for 400..599
IsOk(status) == ~(400 <= status /\ status < 600)

\* response.text[:500] applied to a body of the given length
Excerpt(len) == IF len > ExcerptMax THEN ExcerptMax ELSE len

\* ---------------------------------------------------------------------------
\* Exceptions and the handler chain of call_api
\* ---------------------------------------------------------------------------

\* the exception raised by response.json() on an undecodable body, for each
\* requests release line: >= 2.27 raises requests.exceptions.JSONDecodeError
\* (an InvalidJSONError, hence a RequestException), which also subclasses the
\* JSONDecodeError of the json library requests.compat picked (simplejson when
\* it is installed, else json); older releases raise that library's error
RequestsVersions == {"modern", "modern_simplejson", "legacy_json", "legacy_simplejson"}

JsonError(ver) ==
    CASE ver = "modern"            -> "requests.JSONDecodeError"
      [] ver = "modern_simplejson" -> "requests.JSONDecodeError(simplejson)"
      [] ver = "legacy_json"       -> "json.JSONDecodeError"
      [] ver = "legacy_simplejson" -> "simplejson.JSONDecodeError"

\* the classes each raised exception is an instance of
Bases(e) ==
    CASE e = "ConnectionError"   -> {"ConnectionError", "RequestException", "OSError", "Exception"}
      [] e = "ConnectTimeout"    -> {"ConnectionError", "Timeout", "RequestException", "OSError", "Exception"}
      [] e = "ReadTimeout"       -> {"Timeout", "RequestException", "OSError", "Exception"}
      [] e = "ChunkedEncodingError" -> {"RequestException", "OSError", "Exception"}
      [] e = "HTTPError"         -> {"HTTPError", "RequestException", "OSError", "Exception"}
      [] e = "MissingSchema"     -> {"RequestException", "ValueError", "OSError", "Exception"}
      [] e = "requests.JSONDecodeError" ->
            {"InvalidJSONError", "RequestException", "OSError", "json.JSONDecodeError", "ValueError", "Exception"}
      [] e = "requests.JSONDecodeError(simplejson)" ->
            {"InvalidJSONError", "RequestException", "OSError", "simplejson.JSONDecodeError", "ValueError", "Exception"}
      [] e = "json.JSONDecodeError" -> {"json.JSONDecodeError", "ValueError", "Exception"}
      [] e = "simplejson.JSONDecodeError" -> {"simplejson.JSONDecodeError", "ValueError", "Exception"}
      [] e = "KeyError"          -> {"KeyError", "LookupError", "Exception"}
      [] e = "TypeError"         -> {"TypeError", "Exception"}
      [] e = "ModuleNotFoundError" -> {"ImportError", "Exception"}

\* call_api without its final catch-all clause
HandlersNoCatchAll == << [cls |-> "ConnectionError",      tag |-> "Connection error"],
                         [cls |-> "Timeout",              tag |-> "Request timeout"],
                         [cls |-> "RequestException",     tag |-> "Request failed"],
                         [cls |-> "json.JSONDecodeError", tag |-> "Invalid JSON response"] >>

\* the except clauses of call_api, in order, with the prefix of the message
Handlers == << [cls |-> "ConnectionError",      tag |-> "Connection error"],
               [cls |-> "Timeout",              tag |-> "Request timeout"],
               [cls |-> "RequestException",     tag |-> "Request failed"],
               [cls |-> "json.JSONDecodeError", tag |-> "Invalid JSON response"],
               [cls |-> "Exception",            tag |-> "Unexpected error"] >>

\* the message tag of the first clause matching e, "raise" if none matches
RECURSIVE CatchFrom(_, _, _)
CatchFrom(hs, e, i) ==
    IF i > Len(hs) THEN "raise"
    ELSE IF hs[i].cls \in Bases(e) THEN hs[i].tag
    ELSE CatchFrom(hs, e, i + 1)

Catch(e) == CatchFrom(Handlers, e, 1)

Failure(tag, status, excerpt) ==
    [success |-> FALSE, tag |-> tag, status |-> status, excerpt |-> excerpt]

Success(data) == [success |-> TRUE, data |-> data]

\* call_api's result for an exception raised inside its try block
ResultOfException(e) ==
    IF Catch(e) = "raise" THEN [raised |-> e]
    ELSE Failure(Catch(e), 0, 0)

\* call_api's result for the response returned by client.request
ResultOfResponse(r, ver) ==
    IF ~IsOk(r.status) THEN Failure("HTTP", r.status, Excerpt(r.len))
    ELSE IF r.body = NotJson THEN ResultOfException(JsonError(ver))
    ELSE Success(r.body)

\* ---------------------------------------------------------------------------
\* DQClient._authenticate and the headers it builds
\* ---------------------------------------------------------------------------

\* the header dict built from a token (lines 63-67)
HeadersOf(tok) ==
    [py |-> "dict", ctype |-> "application/json", accept |-> "application/json",
     auth |-> "Bearer " \o FormatValue(tok)]

\* the outcome of one sign-in given the backend's answer sr: the exception it
\* raises, or the token it stores
Authenticate(sr, ver) ==
    IF sr.transport # "none" THEN [raised |-> sr.transport]
    ELSE IF ~IsOk(sr.status) THEN [raised |-> "HTTPError"]
    ELSE IF sr.body = NotJson THEN [raised |-> JsonError(ver)]
    ELSE IF sr.body.py # "dict" THEN [raised |-> "TypeError"]
    ELSE IF "token" \notin DOMAIN sr.body.v THEN [raised |-> "KeyError"]
    ELSE [tok |-> sr.body.v["token"]]

Raised(out) == "raised" \in DOMAIN out

\* a retry on every error status
NeedsRetryOnError(status) == ~IsOk(status)

\* DQClient.request: the retry condition (line 95)
NeedsRetry(status) == status = Unauthorized

\* a retry that resends the headers of the first attempt
RequestHeadersStale(n, kw, h) == IF n = 2 THEN kw ELSE h

\* DQClient.request: the headers attached to attempt n (lines 90 and 97 both
\* read self.headers); kw is what the previous attempt carried
RequestHeaders(n, kw, h) == h

\* ---------------------------------------------------------------------------
\* Inputs: what the backend can answer
\* ---------------------------------------------------------------------------

TokenValues == {PyStr("abc"), PyStr("def"), PyNone, PyInt(5), PyList(<<PyInt(1)>>),
                PyList(<<PyStr("it's"), PyStr("a\\b")>>),
                PyDict(<<"b", "a">>, [b |-> PyInt(1), a |-> PyInt(2)])}

SigninBodies == {PyDict(<<"token">>, [k \in {"token"} |-> t]) : t \in TokenValues}
                \cup {PyDict(<<>>, [k \in {} |-> PyNone]), PyList(<<>>), NotJson}

SigninResponses ==
    {[transport |-> e, status |-> 0, body |-> PyNone] :
        e \in {"ConnectionError", "MissingSchema", "ReadTimeout"}}
    \cup {[transport |-> "none", status |-> s, body |-> b] :
        s \in {200, 500}, b \in SigninBodies}

TransportErrors == {"ConnectionError", "ConnectTimeout", "ReadTimeout", "ChunkedEncodingError"}

Statuses == {200, 401, 404, 500}

BodyLens == {3, 501}

Responses == [status : Statuses, body : {PyList(<<>>), NotJson}, len : BodyLens]

NoResp == [status |-> 0, body |-> PyNone, len |-> 0]

\* marker for "no sign-in has succeeded yet"
NoToken == [py |-> "unset"]

\* ---------------------------------------------------------------------------
\* Bounds
\* ---------------------------------------------------------------------------

MaxCalls == 3

\* ---------------------------------------------------------------------------
\* State: the singleton, its token state, and one caller running call_api
\* ---------------------------------------------------------------------------

VARIABLES
    client,       \* module global _client
    constructed,  \* number of DQClient constructions
    ctoken,       \* _token of each constructed DQClient, by construction order
    cheaders,     \* _headers of each constructed DQClient, by construction order
    signins,      \* sign-in POSTs performed
    ver,          \* requests release line of the build
    dotenv        \* whether python-dotenv is importable in the build

\* the program state every invocation shares
shared == <<client, constructed, ctoken, cheaders, signins, ver, dotenv>>

\* _client._token and _client._headers
token == IF client = PyNone THEN PyNone ELSE ctoken[client.id]

headers == IF client = PyNone THEN PyNone ELSE cheaders[client.id]

VARIABLES
    pc,           \* position in call_api / DQClient.request
    calls,        \* call_api invocations started
    attempts,     \* backend attempts of the current request
    resp1,        \* first response of the current request
    resp2,        \* retried response of the current request
    returned,     \* the response client.request returned
    result,       \* the value call_api returned (or the exception it raised)
    afterFirst,   \* sign-ins after the first response of the current request
    lastEvent,    \* the previous observable event
    lastObtained, \* token of the latest successful sign-in
    sentAuth,     \* Authorization header of the latest attempt
    successSeen   \* a request has received a non-401 response

seqvars == <<pc, calls, attempts, resp1, resp2, returned, result, afterFirst,
             lastEvent, lastObtained, sentAuth, successSeen>>

vars == <<shared, seqvars>>

VARIABLES
    noneSeen,     \* None-checks that found _client still None
    cpc,          \* position of each concurrent invocation
    mine,         \* the client each concurrent invocation obtained
    ccalls,       \* invocations started by each concurrent caller
    rd,           \* kwargs['headers'] of each concurrent invocation
    readTok,      \* _token of its client when it read those headers
    csent,        \* Authorization header of its latest attempt ("" if none)
    csentRead,    \* readTok when that attempt was sent
    csentLatest,  \* latest token obtained by any sign-in when it was sent
    clast         \* token of the latest successful sign-in of any invocation

cvars == <<noneSeen, cpc, mine, ccalls, rd, readTok, csent, csentRead, csentLatest, clast>>

VARIABLES
    tool,         \* the tool function last invoked
    targ,         \* its string argument (sql or dataset)
    tpc,          \* "calling" while its call_api runs, else "idle"
    tin,          \* the call_api result it received
    tout,         \* the string it returned, or the exception it raised
    tabulateInstalled \* whether the build has tabulate (used by to_markdown)

tvars == <<tool, targ, tpc, tin, tout, tabulateInstalled>>

NoResult == [none |-> TRUE]

ClientInit ==
    /\ client = PyNone
    /\ constructed = 0
    /\ ctoken = <<>>
    /\ cheaders = <<>>
    /\ signins = 0
    /\ ver \in RequestsVersions
    /\ dotenv \in BOOLEAN
    /\ pc = "idle"
    /\ calls = 0
    /\ attempts = 0
    /\ resp1 = NoResp
    /\ resp2 = NoResp
    /\ returned = NoResp
    /\ result = NoResult
    /\ afterFirst = 0
    /\ lastEvent = "none"
    /\ lastObtained = NoToken
    /\ sentAuth = ""
    /\ successSeen = FALSE

\* call_api starts: get_client() (lines 152, 119-133); a fresh DQClient holds
\* no token (lines 41-44); without python-dotenv the import on line 123
\* raises before anything is built, and call_api classifies it
CallApiCore ==
    /\ pc = "idle"
    /\ calls < MaxCalls
    /\ calls' = calls + 1
    /\ attempts' = 0
    /\ afterFirst' = 0
    /\ resp1' = NoResp
    /\ resp2' = NoResp
    /\ returned' = NoResp
    /\ IF client = PyNone /\ ~dotenv
       THEN /\ result' = ResultOfException("ModuleNotFoundError")
            /\ pc' = "idle"
            /\ lastEvent' = "clientFail"
            /\ UNCHANGED <<client, constructed, ctoken, cheaders>>
       ELSE /\ result' = NoResult
            /\ pc' = "hdr"
            /\ lastEvent' = "call"
            /\ IF client = PyNone
               THEN /\ client' = [py |-> "DQClient", id |-> constructed + 1]
                    /\ constructed' = constructed + 1
                    /\ ctoken' = Append(ctoken, PyNone)
                    /\ cheaders' = Append(cheaders, PyNone)
               ELSE UNCHANGED <<client, constructed, ctoken, cheaders>>
    /\ UNCHANGED <<signins, ver, dotenv, lastObtained, sentAuth, successSeen>>
    /\ UNCHANGED cvars

CallApi == CallApiCore /\ UNCHANGED tvars

\* DQClient.headers with cached headers (lines 72, 74)
HeadersCached ==
    /\ pc = "hdr"
    /\ headers # PyNone
    /\ pc' = "send1"
    /\ lastEvent' = "headers"
    /\ UNCHANGED shared
    /\ UNCHANGED <<calls, attempts, resp1, resp2, returned, result, afterFirst,
                   lastObtained, sentAuth, successSeen>>
    /\ UNCHANGED cvars
    /\ UNCHANGED tvars

\* DQClient._authenticate, called lazily from DQClient.headers (line 73) or
\* after a 401 (line 96), the backend answering with one of srs; an
\* exception propagates out of request and is classified by call_api
SignInFrom(srs) ==
    /\ \/ pc = "hdr" /\ headers = PyNone
       \/ pc = "reauth"
    /\ \E sr \in srs :
         LET out == Authenticate(sr, ver) IN
         /\ signins' = signins + 1
         /\ afterFirst' = afterFirst + (IF pc = "reauth" THEN 1 ELSE 0)
         /\ IF Raised(out)
            THEN /\ result' = ResultOfException(out.raised)
                 /\ pc' = "idle"
                 /\ lastEvent' = "signinFail"
                 /\ UNCHANGED <<ctoken, cheaders, lastObtained>>
            ELSE /\ ctoken' = [ctoken EXCEPT ![client.id] = out.tok]
                 /\ cheaders' = [cheaders EXCEPT ![client.id] = HeadersOf(out.tok)]
                 /\ lastObtained' = out.tok
                 /\ lastEvent' = "signin"
                 /\ pc' = IF pc = "hdr" THEN "send1" ELSE "send2"
                 /\ UNCHANGED result
    /\ UNCHANGED <<client, constructed, ver, dotenv, calls, attempts, resp1, resp2,
                   returned, sentAuth, successSeen>>
    /\ UNCHANGED cvars
    /\ UNCHANGED tvars

SignIn == SignInFrom(SigninResponses)

\* requests.request for attempt n (lines 92 and 98), the backend answering
\* with one of rs, the retry decision (line 95) and, when the request is
\* over, call_api's classification (lines 156-174)
SendFrom(n, rs) ==
    /\ pc = IF n = 1 THEN "send1" ELSE "send2"
    /\ attempts' = n
    /\ sentAuth' = RequestHeaders(n, sentAuth, headers.auth)
    /\ \/ \E e \in TransportErrors :
            /\ result' = ResultOfException(e)
            /\ pc' = "idle"
            /\ lastEvent' = "sendExc"
            /\ UNCHANGED <<resp1, resp2, returned, successSeen>>
       \/ \E r \in rs :
            /\ IF n = 1 THEN resp1' = r /\ UNCHANGED resp2
                        ELSE resp2' = r /\ UNCHANGED resp1
            /\ lastEvent' = IF r.status = Unauthorized THEN "resp401" ELSE "resp"
            /\ successSeen' = (successSeen \/ r.status # Unauthorized)
            /\ IF n = 1 /\ NeedsRetry(r.status)
               THEN /\ pc' = "reauth"
                    /\ UNCHANGED <<returned, result>>
               ELSE /\ returned' = r
                    /\ result' = ResultOfResponse(r, ver)
                    /\ pc' = "idle"
    /\ UNCHANGED shared
    /\ UNCHANGED <<calls, afterFirst, lastObtained>>
    /\ UNCHANGED cvars
    /\ UNCHANGED tvars

Send(n) == SendFrom(n, Responses)

Next == CallApi \/ HeadersCached \/ SignIn \/ Send(1) \/ Send(2)

TypeOK ==
    /\ pc \in {"idle", "hdr", "send1", "reauth", "send2"}
    /\ attempts \in 0..2



\* ---------------------------------------------------------------------------
\* Python semantics used by the tool functions
\* ---------------------------------------------------------------------------

Ok(v) == [ok |-> TRUE, v |-> v]

Exc(e) == [ok |-> FALSE, exc |-> e]

\* x[k] for a string key k
Subscript(x, k) ==
    IF x.py = "dict"
    THEN IF k \in DOMAIN x.v THEN Ok(x.v[k]) ELSE Exc("KeyError")
    ELSE Exc("TypeError")

\* x.get(k, d)
DictGet(x, k, d) ==
    IF x.py = "dict"
    THEN Ok(IF k \in DOMAIN x.v THEN x.v[k] ELSE d)
    ELSE Exc("AttributeError")

\* the items of "for y in x": a dict yields its keys, a str its characters
Iterate(x) ==
    CASE x.py = "list" -> Ok(x.v)
      [] x.py = "dict" -> Ok([i \in 1..Len(x.keys) |-> PyStr(x.keys[i])])
      [] x.py = "str"  -> Ok([i \in 1..Len(x.v) |-> PyStr(SubSeq(x.v, i, i))])
      [] OTHER         -> Exc("TypeError")

\* bool(x)
Truthy(x) ==
    CASE x.py = "None" -> FALSE
      [] x.py = "int"  -> x.v # 0
      [] x.py = "dict" -> DOMAIN x.v # {}
      [] OTHER         -> Len(x.v) > 0

\* len(x)
PyLen(x) ==
    CASE x.py \in {"list", "str"} -> Ok(Len(x.v))
      [] x.py = "dict"            -> Ok(Cardinality(DOMAIN x.v))
      [] OTHER                    -> Exc("TypeError")

\* [y[k] for y in s], stopping at the first exception
RECURSIVE SubscriptAll(_, _, _, _)
SubscriptAll(s, k, i, acc) ==
    IF i > Len(s) THEN Ok(acc)
    ELSE LET y == Subscript(s[i], k) IN
         IF ~y.ok THEN y ELSE SubscriptAll(s, k, i + 1, Append(acc, y.v))

Min(a, b) == IF a < b THEN a ELSE b

RECURSIVE MaxWidth(_)
MaxWidth(rows) ==
    IF rows = <<>> THEN 0
    ELSE LET w == MaxWidth(Tail(rows)) IN IF Len(Head(rows)) > w THEN Len(Head(rows)) ELSE w

\* a string returned by a tool: json.dumps of a value, a markdown table, or
\* an exception escaping the tool
JsonOut(v) == [kind |-> "json", value |-> v]

Raise(e) == [kind |-> "raise", exc |-> e]

ParseFailure(e) ==
    JsonOut([success |-> FALSE, error |-> "Failed to parse response: " \o e])

\* ---------------------------------------------------------------------------
\* run_sql (lines 196-239)
\* ---------------------------------------------------------------------------

MaxShown == 10

\* line 233
NoteNeeded(n) == n > MaxShown

\* the rows of the response, each row the colValue of its items (lines 222-225)
RECURSIVE RowValues(_, _, _)
RowValues(rows, i, acc) ==
    IF i > Len(rows) THEN Ok(acc)
    ELSE LET items == Iterate(rows[i]) IN
         IF ~items.ok THEN items
         ELSE LET vals == SubscriptAll(items.v, "colValue", 1, <<>>) IN
              IF ~vals.ok THEN vals
              ELSE RowValues(rows, i + 1, Append(acc, vals.v))

\* a row padded with None up to width w
PadRow(row, w) == row \o [k \in 1..(w - Len(row)) |-> PyNone]

\* pd.DataFrame(data_rows, columns=column_names): rows shorter than the
\* widest are padded with None, a width other than the column count is a
\* ValueError
DataFrame(dataRows, columns) ==
    IF dataRows # <<>> /\ MaxWidth(dataRows) # Len(columns)
    THEN Exc("ValueError")
    ELSE Ok([columns |-> columns,
             rows |-> [i \in 1..Len(dataRows) |-> PadRow(dataRows[i], Len(columns))]])

\* df.head(10).to_markdown(...) under the title, plus the truncation note
Markdown(sql, df) ==
    [kind   |-> "table",
     title  |-> [text |-> "Results for:", code |-> sql],
     header |-> df.columns,
     rows   |-> SubSeq(df.rows, 1, Min(MaxShown, Len(df.rows))),
     note   |-> IF NoteNeeded(Len(df.rows))
                THEN <<[shown |-> MaxShown, total |-> Len(df.rows)]>> ELSE <<>>]

\* the except (KeyError, TypeError) clause of lines 238-239
SqlCatch(e) == IF e \in {"KeyError", "TypeError"} THEN ParseFailure(e) ELSE Raise(e)

\* tab: whether tabulate, which DataFrame.to_markdown imports, is installed;
\* without it to_markdown raises ImportError (line 231)
RunSql(sql, res, tab) ==
    IF ~res.success THEN JsonOut(res)
    ELSE LET schema == Subscript(res.data, "schema") IN
    IF ~schema.ok THEN SqlCatch(schema.exc)
    ELSE LET cols0 == Iterate(schema.v) IN
    IF ~cols0.ok THEN SqlCatch(cols0.exc)
    ELSE LET names == SubscriptAll(cols0.v, "name", 1, <<>>) IN
    IF ~names.ok THEN SqlCatch(names.exc)
    ELSE LET rows == Subscript(res.data, "rows") IN
    IF ~rows.ok THEN SqlCatch(rows.exc)
    ELSE LET rows0 == Iterate(rows.v) IN
    IF ~rows0.ok THEN SqlCatch(rows0.exc)
    ELSE LET vals == RowValues(rows0.v, 1, <<>>) IN
    IF ~vals.ok THEN SqlCatch(vals.exc)
    ELSE LET df == DataFrame(vals.v, names.v) IN
    IF ~df.ok THEN SqlCatch(df.exc)
    ELSE IF ~tab THEN SqlCatch("ImportError")
    ELSE Markdown(sql, df.v)

\* ---------------------------------------------------------------------------
\* get_rules_by_dataset (lines 242-272)
\* ---------------------------------------------------------------------------

\* a test that only treats None as "no rules"
NoRulesIfNone(rules) == rules = PyNone

\* line 260
NoRules(rules) == ~Truthy(rules)

\* the formatted rules (lines 263-270)
RECURSIVE FormatRules(_, _, _)
FormatRules(rs, i, acc) ==
    IF i > Len(rs) THEN Ok(acc)
    ELSE LET n == DictGet(rs[i], "ruleNm", PyNone)
             q == DictGet(rs[i], "ruleValue", PyNone)
             t == DictGet(rs[i], "ruleType", PyNone)
             p == DictGet(rs[i], "points", PyNone) IN
         IF ~n.ok THEN n
         ELSE FormatRules(rs, i + 1,
                Append(acc, [name |-> n.v, sql |-> q.v, type |-> t.v, points |-> p.v]))

GetRulesByDataset(dataset, res) ==
    IF ~res.success THEN JsonOut(res)
    ELSE LET rules == res.data IN
    IF NoRules(rules)
    THEN JsonOut([success |-> TRUE, message |-> "No rules found for dataset: " \o dataset])
    ELSE LET rs == Iterate(rules) IN
    IF ~rs.ok THEN Raise(rs.exc)
    ELSE LET f == FormatRules(rs.v, 1, <<>>) IN
    IF ~f.ok THEN Raise(f.exc)
    ELSE JsonOut([success |-> TRUE, data |-> f.v])

\* ---------------------------------------------------------------------------
\* search_catalog (lines 310-340) and get_jobs_in_queue (lines 343-377)
\* ---------------------------------------------------------------------------

SearchCatalog(res) ==
    IF ~res.success THEN JsonOut(res)
    ELSE LET ds == DictGet(res.data, "dataAssetList", PyList(<<>>)) IN
    IF ~ds.ok THEN Raise(ds.exc)
    ELSE LET n == PyLen(ds.v) IN
    IF ~n.ok THEN Raise(n.exc)
    ELSE JsonOut([success |-> TRUE, count |-> n.v, data |-> ds.v])

\* the job summaries (lines 368-374)
RECURSIVE SummarizeJobs(_, _, _)
SummarizeJobs(js, i, acc) ==
    IF i > Len(js) THEN Ok(acc)
    ELSE LET d == DictGet(js[i], "dataset", PyNone)
             r == DictGet(js[i], "runId", PyNone)
             st == DictGet(js[i], "status", PyNone) IN
         IF ~d.ok THEN d
         ELSE SummarizeJobs(js, i + 1,
                Append(acc, [dataset |-> d.v, runId |-> r.v, status |-> st.v]))

\* the except (KeyError, TypeError) clause of lines 376-377
JobsCatch(e) == IF e \in {"KeyError", "TypeError"} THEN ParseFailure(e) ELSE Raise(e)

GetJobsInQueue(res) ==
    IF ~res.success THEN JsonOut(res)
    ELSE LET jobs == DictGet(res.data, "data", PyList(<<>>)) IN
    IF ~jobs.ok THEN JobsCatch(jobs.exc)
    ELSE LET js == Iterate(jobs.v) IN
    IF ~js.ok THEN JobsCatch(js.exc)
    ELSE LET s == SummarizeJobs(js.v, 1, <<>>) IN
    IF ~s.ok THEN JobsCatch(s.exc)
    ELSE JsonOut([success |-> TRUE, count |-> Len(s.v), data |-> s.v])

\* ---------------------------------------------------------------------------
\* Properties of the client and of call_api
\* ---------------------------------------------------------------------------

\* C1 (as stated): before the first non-401 response at most one sign-in
\* happens, and every sign-in after the first follows a 401 immediately.
C1_AtMostOneSignInBeforeSuccess ==
    /\ [](~successSeen => signins <= 1)
    /\ [][(signins' > signins /\ signins > 0) => lastEvent = "resp401"]_vars

\* C1 (amended): every sign-in call is made either while the client holds no
\* headers, or immediately after a 401 response.
C1_SignInOnlyLazyOrAfter401 ==
    [][signins' > signins => (headers = PyNone \/ lastEvent = "resp401")]_vars

\* the first request got a 401 and the client signed in a second time
\* before any request succeeded
C1_Witness == signins >= 2 /\ ~successSeen /\ lastEvent = "signin"

\* C2: when a request has returned a response, the backend saw one attempt
\* whose non-401 response is returned (no sign-in after it), or two attempts
\* of which the first was a 401 and the second is returned as it came.
C2_AtMostOneRetry ==
    (pc = "idle" /\ lastEvent \in {"resp", "resp401"}) =>
        /\ attempts \in {1, 2}
        /\ attempts = 1 => /\ resp1.status # Unauthorized
                           /\ returned = resp1
                           /\ afterFirst = 0
        /\ attempts = 2 => /\ resp1.status = Unauthorized
                           /\ returned = resp2
                           /\ afterFirst = 1

\* a retried request whose second attempt was a 401 too
C2_Witness == pc = "idle" /\ lastEvent = "resp401" /\ attempts = 2

\* C3: call_api never raises; it returns a success with data or a failure
\* with a non-empty tagged message, and a failure for an error status carries
\* the status code and at most the first 500 characters of the body.
C3_NeverRaises ==
    result # NoResult =>
        /\ "success" \in DOMAIN result
        /\ result.success => "data" \in DOMAIN result
        /\ ~result.success =>
             /\ result.tag # ""
             /\ result.tag = "HTTP" =>
                  /\ result.status = returned.status
                  /\ result.excerpt = Excerpt(returned.len)
                  /\ result.excerpt <= ExcerptMax

\* an error status with a body longer than the excerpt
C3_Witness ==
    /\ result # NoResult
    /\ "tag" \in DOMAIN result
    /\ result.tag = "HTTP"
    /\ returned.len > ExcerptMax

\* C4: a success status with an undecodable body is reported as a JSON
\* parse error, not as a generic "Request failed".
C4_JsonDecodeCategory ==
    (pc = "idle" /\ lastEvent = "resp" /\ IsOk(returned.status) /\ returned.body = NotJson) =>
        /\ "tag" \in DOMAIN result
        /\ result.tag = "Invalid JSON response"

\* C5: _headers is set exactly when _token is set, and a failed sign-in leaves
\* both as they were.
C5_HeadersIffToken ==
    /\ []((headers = PyNone) <=> (token = PyNone))
    /\ [][lastEvent' = "signinFail" => UNCHANGED <<token, headers>>]_vars


\* ---------------------------------------------------------------------------
\* Concurrent tool invocations sharing the lazy singleton (get_client,
\* lines 119-133) and the lazy sign-in of DQClient.headers (lines 72-73);
\* each statement is a step, so another invocation can run in between
\* ---------------------------------------------------------------------------

NumCallers == 2

MaxCallsEach == 2

Callers == 1..NumCallers

\* a get_client that never reuses the singleton
ClientMissingAlways(c) == TRUE

\* get_client: the singleton test (line 122)
ClientMissing(c) == c = PyNone

\* the sign-in answers the concurrent and tool models draw from: one of two
\* tokens, or an error status
SigninOkOrError ==
    {[transport |-> "none", status |-> 200,
      body |-> PyDict(<<"token">>, [k \in {"token"} |-> PyStr(t)])] : t \in {"abc", "def"}}
    \cup {[transport |-> "none", status |-> 500, body |-> PyList(<<>>)]}

ConcInit ==
    /\ noneSeen = 0
    /\ cpc = [p \in Callers |-> "idle"]
    /\ mine = [p \in Callers |-> PyNone]
    /\ ccalls = [p \in Callers |-> 0]
    /\ rd = [p \in Callers |-> PyNone]
    /\ readTok = [p \in Callers |-> NoToken]
    /\ csent = [p \in Callers |-> ""]
    /\ csentRead = [p \in Callers |-> NoToken]
    /\ csentLatest = [p \in Callers |-> NoToken]
    /\ clast = NoToken

\* get_client: test of _client (line 122)
GetClientCheck(p) ==
    /\ cpc[p] = "idle"
    /\ ccalls[p] < MaxCallsEach
    /\ ccalls' = [ccalls EXCEPT ![p] = @ + 1]
    /\ noneSeen' = noneSeen + (IF client = PyNone THEN 1 ELSE 0)
    /\ IF ClientMissing(client)
       THEN /\ cpc' = [cpc EXCEPT ![p] = "build"]
            /\ UNCHANGED mine
       ELSE /\ cpc' = [cpc EXCEPT ![p] = "hdr"]
            /\ mine' = [mine EXCEPT ![p] = client]
    /\ UNCHANGED <<rd, readTok, csent, csentRead, csentLatest, clast>>
    /\ UNCHANGED shared
    /\ UNCHANGED seqvars
    /\ UNCHANGED tvars

\* get_client: load_dotenv, DQConfig, DQClient(config) and the assignment to
\* _client (lines 123-132); without python-dotenv the import on line 123
\* raises, nothing is built, and call_api returns the failure
GetClientBuild(p) ==
    /\ cpc[p] = "build"
    /\ IF dotenv
       THEN /\ client' = [py |-> "DQClient", id |-> constructed + 1]
            /\ constructed' = constructed + 1
            /\ ctoken' = Append(ctoken, PyNone)
            /\ cheaders' = Append(cheaders, PyNone)
            /\ cpc' = [cpc EXCEPT ![p] = "ret"]
       ELSE /\ UNCHANGED <<client, constructed, ctoken, cheaders>>
            /\ cpc' = [cpc EXCEPT ![p] = "idle"]
    /\ UNCHANGED <<signins, ver, dotenv>>
    /\ UNCHANGED <<noneSeen, mine, ccalls, rd, readTok, csent, csentRead, csentLatest, clast>>
    /\ UNCHANGED seqvars
    /\ UNCHANGED tvars

\* get_client: "return _client" re-reads the global (line 133)
GetClientReturn(p) ==
    /\ cpc[p] = "ret"
    /\ mine' = [mine EXCEPT ![p] = client]
    /\ cpc' = [cpc EXCEPT ![p] = "hdr"]
    /\ UNCHANGED <<noneSeen, ccalls, rd, readTok, csent, csentRead, csentLatest, clast>>
    /\ UNCHANGED shared
    /\ UNCHANGED seqvars
    /\ UNCHANGED tvars

\* DQClient.headers called from line 90: test of the client's _headers (line 72)
HeadersCheck(p) ==
    /\ cpc[p] = "hdr"
    /\ cpc' = [cpc EXCEPT ![p] = IF cheaders[mine[p].id] # PyNone THEN "read1" ELSE "auth"]
    /\ UNCHANGED <<noneSeen, mine, ccalls, rd, readTok, csent, csentRead, csentLatest, clast>>
    /\ UNCHANGED shared
    /\ UNCHANGED seqvars
    /\ UNCHANGED tvars

\* DQClient._authenticate on the invocation's client (lines 46-67): on
\* success that instance's _token and _headers are set, on failure the
\* exception propagates and the invocation ends; next is where a success
\* continues
AuthOn(p, next) ==
    /\ signins' = signins + 1
    /\ \E sr \in SigninOkOrError :
         LET out == Authenticate(sr, ver) IN
         IF Raised(out)
         THEN /\ UNCHANGED <<ctoken, cheaders, clast>>
              /\ cpc' = [cpc EXCEPT ![p] = "idle"]
         ELSE /\ ctoken' = [ctoken EXCEPT ![mine[p].id] = out.tok]
              /\ cheaders' = [cheaders EXCEPT ![mine[p].id] = HeadersOf(out.tok)]
              /\ clast' = out.tok
              /\ cpc' = [cpc EXCEPT ![p] = next]
    /\ UNCHANGED <<client, constructed, ver, dotenv>>
    /\ UNCHANGED <<noneSeen, mine, ccalls, rd, readTok, csent, csentRead, csentLatest>>
    /\ UNCHANGED seqvars
    /\ UNCHANGED tvars

\* DQClient._authenticate from DQClient.headers (line 73)
AuthStep(p) ==
    /\ cpc[p] = "auth"
    /\ AuthOn(p, "read1")

\* kwargs['headers'] = self.headers for attempt n: the property's return of
\* the client's _headers (line 74, reached from line 90), or the whole
\* property call of line 97, whose test passes after the re-sign-in
ReadHeaders(p, n) ==
    /\ cpc[p] = IF n = 1 THEN "read1" ELSE "read2"
    /\ rd' = [rd EXCEPT ![p] = RequestHeaders(n, rd[p], cheaders[mine[p].id])]
    /\ readTok' = [readTok EXCEPT ![p] = ctoken[mine[p].id]]
    /\ cpc' = [cpc EXCEPT ![p] = IF n = 1 THEN "send1" ELSE "send2"]
    /\ UNCHANGED <<noneSeen, mine, ccalls, csent, csentRead, csentLatest, clast>>
    /\ UNCHANGED shared
    /\ UNCHANGED seqvars
    /\ UNCHANGED tvars

\* requests.request with the headers in kwargs for attempt n (lines 92 and
\* 98), and after the first one the 401 test (line 95)
SendStep(p, n) ==
    /\ cpc[p] = IF n = 1 THEN "send1" ELSE "send2"
    /\ csent' = [csent EXCEPT ![p] = rd[p].auth]
    /\ csentRead' = [csentRead EXCEPT ![p] = readTok[p]]
    /\ csentLatest' = [csentLatest EXCEPT ![p] = clast]
    /\ IF n = 1
       THEN \E st \in {200, Unauthorized} :
              cpc' = [cpc EXCEPT ![p] = IF NeedsRetry(st) THEN "reauth" ELSE "idle"]
       ELSE cpc' = [cpc EXCEPT ![p] = "idle"]
    /\ UNCHANGED <<noneSeen, mine, ccalls, rd, readTok, clast>>
    /\ UNCHANGED shared
    /\ UNCHANGED seqvars
    /\ UNCHANGED tvars

\* DQClient.request: the re-sign-in after a 401 (line 96)
ReauthStep(p) ==
    /\ cpc[p] = "reauth"
    /\ AuthOn(p, "read2")

ConcNext ==
    \E p \in Callers :
        \/ GetClientCheck(p) \/ GetClientBuild(p) \/ GetClientReturn(p)
        \/ HeadersCheck(p) \/ AuthStep(p) \/ ReadHeaders(p, 1) \/ SendStep(p, 1)
        \/ ReauthStep(p) \/ ReadHeaders(p, 2) \/ SendStep(p, 2)

\* ---------------------------------------------------------------------------
\* Tool invocations on every call_api result the backend can produce
\* ---------------------------------------------------------------------------

MaxRows == 12

Cell(i) == PyDict(<<"colValue">>, [colValue |-> PyInt(i)])

Col(c) == PyDict(<<"name">>, [name |-> PyStr(c)])

\* a /v2/getsqlresult payload with nc columns and n rows
SqlPayload(nc, n) ==
    PyDict(<<"schema", "rows">>,
           [schema |-> PyList(SubSeq(<<Col("a"), Col("b")>>, 1, nc)),
            rows   |-> PyList([i \in 1..n |-> PyList([j \in 1..nc |-> Cell(i)])])])

WellFormedSql == {SqlPayload(nc, n) : nc \in 1..2, n \in 0..MaxRows}

RuleR1 == PyDict(<<"ruleNm", "ruleValue", "ruleType", "points">>,
                 [ruleNm |-> PyStr("r1"), ruleValue |-> PyStr("select 1"),
                  ruleType |-> PyStr("SQLF"), points |-> PyInt(5)])

RuleR2 == PyDict(<<"ruleNm", "ruleValue", "ruleType", "points">>,
                 [ruleNm |-> PyStr("r2"), ruleValue |-> PyStr("select 2"),
                  ruleType |-> PyStr("SQLF"), points |-> PyInt(1)])

RulesPayloads == {PyList(<<>>), PyList(<<RuleR1>>), PyList(<<RuleR1, RuleR2>>)}

CatalogPayloads ==
    {PyDict(<<"dataAssetList">>, [dataAssetList |-> PyList(<<PyStr("d1")>>)]),
     PyDict(<<"x">>, [x |-> PyInt(1)])}

JobsPayloads ==
    {PyDict(<<"data">>,
            [data |-> PyList(<<PyDict(<<"dataset", "runId", "status">>,
                                      [dataset |-> PyStr("d"), runId |-> PyStr("2025-01-23"),
                                       status |-> PyStr("RUNNING")])>>)])}

\* payloads of a shape no tool expects
MalformedPayloads ==
    {PyInt(5), PyInt(0), PyStr("ab"), PyNone,
     PyList(<<PyStr("x")>>), PyList(<<PyInt(1)>>),
     PyDict(<<"dataAssetList">>, [dataAssetList |-> PyInt(3)]),
     PyDict(<<"data">>, [data |-> PyList(<<PyInt(1)>>)]),
     PyDict(<<"data">>, [data |-> PyInt(2)]),
     PyDict(<<"schema", "rows">>, [schema |-> PyInt(1), rows |-> PyList(<<>>)]),
     PyDict(<<"schema">>, [schema |-> PyList(<<>>)]),
     PyDict(<<"schema", "rows">>,
            [schema |-> PyList(<<>>), rows |-> PyDict(<<"">>, [k \in {""} |-> PyInt(1)])]),
     PyDict(<<"schema", "rows">>,
            [schema |-> PyList(<<Col("a")>>), rows |-> PyList(<<PyList(<<Cell(1), Cell(1)>>)>>)]),
     PyDict(<<"schema", "rows">>,
            [schema |-> PyList(<<Col("a"), Col("b")>>),
             rows |-> PyList(<<PyList(<<Cell(1), Cell(1)>>), PyList(<<Cell(2)>>)>>)])}

\* what the backend answers a tool's request: each payload with 200, a body
\* that is not JSON, a 401 and a server error
ToolPayloads ==
    WellFormedSql \cup RulesPayloads \cup CatalogPayloads \cup JobsPayloads
        \cup MalformedPayloads

ToolResponses ==
    {[status |-> 200, body |-> b, len |-> 3] : b \in ToolPayloads \cup {NotJson}}
    \cup {[status |-> s, body |-> PyList(<<>>), len |-> 3] : s \in {401, 500}}

\* tool invocations a behaviour makes
MaxToolCalls == 2

Datasets == {"samples.austin_311", "ds"}

ToolInit ==
    /\ tool = "none"
    /\ targ = ""
    /\ tpc = "idle"
    /\ tin = NoResult
    /\ tout = NoResult
    /\ tabulateInstalled \in BOOLEAN

\* the program state after the module is loaded
Init == ClientInit /\ ConcInit /\ ToolInit

allvars == <<vars, cvars, tvars>>

\* a tool function is entered with argument a and calls call_api
ToolCall(t, a) ==
    /\ tpc = "idle"
    /\ calls < MaxToolCalls
    /\ CallApiCore
    /\ tool' = t
    /\ targ' = a
    /\ tpc' = "calling"
    /\ tin' = NoResult
    /\ tout' = NoResult
    /\ UNCHANGED tabulateInstalled

\* run_sql (lines 196-239): call_api("POST", "/v2/getsqlresult", ...)
RunSqlTool == ToolCall("run_sql", "select 1")

\* get_rules_by_dataset (lines 242-272): call_api("GET", "/v3/rules/...")
GetRulesTool == \E ds \in Datasets : ToolCall("get_rules_by_dataset", ds)

\* search_catalog (lines 334-340)
SearchCatalogTool == ToolCall("search_catalog", "")

\* get_jobs_in_queue (lines 360-377)
GetJobsTool == ToolCall("get_jobs_in_queue", "")

\* the tool function that received call_api's result res
ToolBody(t, a, res) ==
    CASE t = "run_sql"              -> RunSql(a, res, tabulateInstalled)
      [] t = "get_rules_by_dataset" -> GetRulesByDataset(a, res)
      [] t = "search_catalog"       -> SearchCatalog(res)
      [] t = "get_jobs_in_queue"    -> GetJobsInQueue(res)

\* call_api has returned (or raised) and the tool function continues with
\* its result
ToolReturn ==
    /\ tpc = "calling"
    /\ pc = "idle"
    /\ tpc' = "idle"
    /\ tin' = result
    /\ tout' = IF "raised" \in DOMAIN result THEN Raise(result.raised)
               ELSE ToolBody(tool, targ, result)
    /\ UNCHANGED <<tool, targ, tabulateInstalled>>
    /\ UNCHANGED vars
    /\ UNCHANGED cvars

ToolSignIn == SignInFrom(SigninOkOrError)

ToolSend(n) == SendFrom(n, ToolResponses)

ToolNext ==
    \/ RunSqlTool \/ GetRulesTool \/ SearchCatalogTool \/ GetJobsTool
    \/ HeadersCached \/ ToolSignIn \/ ToolSend(1) \/ ToolSend(2)
    \/ ToolReturn

ToolSpec == Init /\ [][ToolNext]_allvars

\* C7 (as stated): run_sql shows the schema's column names, the first min(N, 10) rows in
\* order, and a note naming 10 and N exactly when N > 10.
C7_TableCapped ==
    (tool = "run_sql" /\ tin \in {Success(d) : d \in WellFormedSql}) =>
        LET schema == tin.data.v["schema"].v
            rows   == tin.data.v["rows"].v
            n      == Len(rows) IN
        /\ tout.kind = "table"
        /\ tout.header = [i \in 1..Len(schema) |-> schema[i].v["name"]]
        /\ Len(tout.rows) = (IF n > 10 THEN 10 ELSE n)
        /\ \A i \in 1..Len(tout.rows) :
              tout.rows[i] = [j \in 1..Len(rows[i].v) |-> rows[i].v[j].v["colValue"]]
        /\ IF n > 10 THEN tout.note = <<[shown |-> 10, total |-> n]>>
                     ELSE tout.note = <<>>

\* C8: get_rules_by_dataset passes failures through, reports an empty list
\* with a message and no data, and maps each rule in order.
C8_RulesShape ==
    (tool = "get_rules_by_dataset" /\ tin # NoResult) =>
        /\ ~tin.success => tout = JsonOut(tin)
        /\ tin = Success(PyList(<<>>)) =>
              /\ tout = JsonOut([success |-> TRUE,
                                 message |-> "No rules found for dataset: " \o targ])
              /\ "data" \notin DOMAIN tout.value
        /\ (/\ tin.success
            /\ tin.data.py = "list"
            /\ tin.data.v # <<>>
            /\ \A i \in 1..Len(tin.data.v) :
                  /\ tin.data.v[i].py = "dict"
                  /\ DOMAIN tin.data.v[i].v = {"ruleNm", "ruleValue", "ruleType", "points"})
           => tout = JsonOut([success |-> TRUE,
                              data |-> [i \in 1..Len(tin.data.v) |->
                                          [name   |-> tin.data.v[i].v["ruleNm"],
                                           sql    |-> tin.data.v[i].v["ruleValue"],
                                           type   |-> tin.data.v[i].v["ruleType"],
                                           points |-> tin.data.v[i].v["points"]]]])

\* the empty rules list
C8_Witness == tool = "get_rules_by_dataset" /\ tin = Success(PyList(<<>>))

\* the payload shapes C10 names as unexpected for each tool: for
\* get_rules_by_dataset a non-list or a list with a non-object element, for
\* search_catalog and get_jobs_in_queue a non-object, for run_sql a payload
\* that is not an object holding both schema and rows
UnexpectedShape(t, d) ==
    CASE t = "get_rules_by_dataset" ->
            d.py # "list" \/ \E i \in 1..Len(d.v) : d.v[i].py # "dict"
      [] t \in {"search_catalog", "get_jobs_in_queue"} -> d.py # "dict"
      [] t = "run_sql" -> d.py # "dict" \/ ~({"schema", "rows"} \subseteq DOMAIN d.v)

\* C10: a tool given a successful call_api result whose payload has an
\* unexpected shape returns a string and does not raise.
C10_NoRaise ==
    (/\ tout # NoResult
     /\ "success" \in DOMAIN tin
     /\ tin.success
     /\ UnexpectedShape(tool, tin.data)) => tout.kind # "raise"

Spec == Init /\ [][Next]_allvars

ConcSpec == Init /\ [][ConcNext]_allvars

\* C9 (as stated): get_client constructs at most one client and every
\* invocation holds the stored instance.
C9_SingleConstruction ==
    /\ constructed <= 1
    /\ \A p \in Callers : cpc[p] \in {"hdr", "auth", "req", "reauth", "retry"} => mine[p] = client

\* C9 (amended): a client is constructed only by an invocation whose test
\* of _client found it None, and get_client hands every invocation the
\* instance stored in _client when it returns.
C9_BuildOnlyAfterNoneCheck ==
    /\ [](constructed <= noneSeen)
    /\ [][\A p \in Callers :
            (cpc[p] \in {"idle", "ret"} /\ cpc'[p] = "hdr") => mine'[p] = client]_allvars

\* two overlapping first invocations each built a client
C9_Witness == constructed = 2

\* C6 (as stated): every attempt carries the Authorization header of the
\* token obtained by the most recent successful sign-in.
C6_LatestTokenSent ==
    \A p \in Callers : csent[p] # "" => csent[p] = HeadersOf(csentLatest[p]).auth

\* C6 (amended): every attempt, the retry included, carries the Authorization
\* header of the token its client held when the attempt read self.headers
\* (line 90, or line 97 after the re-sign-in).
C6_TokenAtHeaderRead ==
    \A p \in Callers : csent[p] # "" => csent[p] = HeadersOf(csentRead[p]).auth

\* an attempt sent after another invocation obtained a newer token
C6_Witness ==
    \E p \in Callers : csent[p] # "" /\ csent[p] # HeadersOf(csentLatest[p]).auth

====
